---- MODULE Spec2Model ----
(***************************************************************************)
(* Model of the conversion-value-rule (CVR) reconciliation of              *)
(* if-this-then-ad: the Google Ads API client with its response cache      *)
(* (src/src/dao/google_ads_client.ts), the campaign CVR DAO                *)
(* (src/src/dao/campaign_cvr.ts) and the Google Ads target agent           *)
(* (src/unnamed/part_000).                                                 *)
(*                                                                         *)
(* Both campaign_cvr.ts and part_000 carry unresolved merge markers.  The  *)
(* model follows the side of the commit being applied (7798efe in          *)
(* campaign_cvr.ts, 9b5dcb4/29340df in part_000); the HEAD side of         *)
(* campaign_cvr.ts calls a method the class does not define.               *)
(*                                                                         *)
(* Numbers are fixed-point hundredths: 125 stands for 1.25.                *)
(***************************************************************************)
EXTENDS Integers, Sequences, FiniteSets, TLC

VARIABLES
  platform,   \* the advertising platform: [cvrs, ruleSets, status]
  cache,      \* the response cache of the live client or agent instance
  last,       \* record of the latest DAO or client call
  agent       \* record of the latest GoogleAds.process or validate call

vars == <<platform, cache, last, agent>>

----------------------------------------------------------------------------
(* Bounds of the model *)

MaxCalls == 2         \* DAO calls in one behaviour

Campaigns == {"c1", "c2"}
\* campaignResourceNames arguments
CampaignLists == {<<"c1">>, <<"c1", "c2">>, <<"c1", "c1">>}
CityNames == {"Paris", "Rome", "Atlantis"}
Weights == {110, 125}      \* multipliers handed to the DAO directly
\* params.conversionWeight, around both bounds of the adjustment
RawWeights == {-200, -51, -50, 25, 1000, 1001, 1500}

----------------------------------------------------------------------------
(* Sequences and strings *)

Range(f) == {f[i] : i \in DOMAIN f}

\* The element of a one-element set.  Only({e(x) : x \in {step}}) runs a
\* step once and names its result, as a statement sequence does.
Only(S) == CHOOSE y \in S : TRUE

\* Strings that are split or joined are sequences of tokens: ids, names and
\* separators
RECURSIVE Split(_, _)
\* String.prototype.split: the pieces between the separators
Split(identifier, sep) ==
  IF identifier = <<>> THEN << <<>> >>
  ELSE IF Head(identifier) = sep
       THEN << <<>> >> \o Split(Tail(identifier), sep)
       ELSE Only({<< <<Head(identifier)>> \o Head(rest) >> \o Tail(rest) :
                  rest \in {Split(Tail(identifier), sep)}})

RECURSIVE Join(_, _)
\* Array.prototype.join
Join(pieces, sep) ==
  IF Len(pieces) = 0 THEN <<>>
  ELSE IF Len(pieces) = 1 THEN pieces[1]
  ELSE pieces[1] \o <<sep>> \o Join(Tail(pieces), sep)

\* The tokens that are numbers
IdTokens == {"1", "2", "9"}

----------------------------------------------------------------------------
(* The platform *)

\* geo_target_constant rows of target type City: name -> resource name
GeoTable == [Paris |-> "g1", Rome |-> "g2"]

NoRow == [name |-> 0, campaign |-> "", geo |-> "", geos |-> <<>>,
          value |-> 0, rules |-> <<>>]

Req(op, city, campaign, id, geo, value, rules) ==
  [op |-> op, city |-> city, campaign |-> campaign, id |-> id, geo |-> geo,
   value |-> value, rules |-> rules]

SearchGeoReq(city) == Req("searchGeo", city, "", 0, "", 0, <<>>)
SearchSetReq(c) == Req("searchSet", "", c, 0, "", 0, <<>>)
SearchCvrReq(id) == Req("searchCvr", "", "", id, "", 0, <<>>)
CreateCvrReq(geo, v) == Req("createCvr", "", "", 0, geo, v, <<>>)
UpdateCvrReq(id, v) == Req("updateCvr", "", "", id, "", v, <<>>)
CreateSetReq(c, rules) == Req("createSet", "", c, 0, "", 0, rules)
UpdateSetReq(id, rules) == Req("updateSet", "", "", id, "", 0, rules)

IsMutation(req) ==
  req.op \in {"createCvr", "updateCvr", "createSet", "updateSet", "updateStatus"}

\* Ads, ad groups and campaigns of the account, per kind: id -> resource name
EntityTable ==
  [ad |-> ("1" :> "a1") @@ ("2" :> "a2"),
   adGroup |-> ("1" :> "ag1") @@ ("2" :> "ag2"),
   campaign |-> ("1" :> "c1") @@ ("2" :> "c2")]

Kinds == {"ad", "adGroup", "campaign"}
Entities == {"a1", "a2", "ag1", "ag2", "c1", "c2"}

\* Labels, per kind: label name -> the entities that carry the label.  A
\* label is listed for a kind only when an entity of that kind carries it.
LabelTable ==
  [ad |-> ("promo" :> <<"a1", "a2">>),
   adGroup |-> ("promo" :> <<"ag2">>),
   campaign |-> ("promo" :> <<"c1", "c2">>)]

\* The resource name of a label
LabelResource(name) == <<"labels", name>>

\* Requests of the agent.  ids is the id list of a query as written into the
\* query text, label a label name or a label resource name.
EntityReq(op, kind, ids, label, resource, status) ==
  [op |-> op, kind |-> kind, ids |-> ids, label |-> label,
   resource |-> resource, status |-> status]

SearchByIdReq(kind, ids) == EntityReq("searchById", kind, ids, <<>>, "", "")
SearchLabelReq(kind, name) == EntityReq("searchLabel", kind, <<>>, name, "", "")
SearchByLabelReq(kind, label) ==
  EntityReq("searchByLabel", kind, <<>>, label, "", "")
SearchCampaignLabelReq(name) ==
  EntityReq("searchCampaignLabel", "campaign", <<>>, name, "", "")
UpdateStatusReq(kind, resource, status) ==
  EntityReq("updateStatus", kind, <<>>, <<>>, resource, status)

RECURSIVE EntityRows(_, _)
\* One row per entity of a list, with its status
EntityRows(p, entities) ==
  IF entities = <<>> THEN <<>>
  ELSE <<[resourceName |-> Head(entities), status |-> p.status[Head(entities)]]>>
       \o EntityRows(p, Tail(entities))

RECURSIVE SetRows(_, _, _)
\* rows of conversion_value_rule_set WHERE campaign = c, in resource order
SetRows(ruleSets, c, i) ==
  IF i > Len(ruleSets) THEN <<>>
  ELSE (IF ruleSets[i].campaign = c
        THEN <<[NoRow EXCEPT !.name = i, !.campaign = c,
                             !.rules = ruleSets[i].rules]>>
        ELSE <<>>) \o SetRows(ruleSets, c, i + 1)

RECURSIVE EntitiesWithId(_, _, _)
\* The entities of a kind whose id is in a set of ids, in the order of ids
EntitiesWithId(kind, ids, wanted) ==
  IF ids = <<>> THEN <<>>
  ELSE (IF Head(ids) \in wanted THEN <<EntityTable[kind][Head(ids)]>>
        ELSE <<>>) \o EntitiesWithId(kind, Tail(ids), wanted)

\* The elements of the id list of a query: <kind>.id IN (<ids>)
QueriedIds(ids) == Range(Split(ids, ","))

\* The platform accepts a query by id when every element of its id list is
\* a number; it accepts every other request of the model
QueryAccepted(req) ==
  req.op = "searchById" =>
    \A q \in QueriedIds(req.ids) : Len(q) = 1 /\ q[1] \in IdTokens

\* The entities that carry a label, given by name
Labelled(kind, name) ==
  IF name \in DOMAIN LabelTable[kind] THEN LabelTable[kind][name] ELSE <<>>

\* What the platform does with a request that it answers with 200:
\* the new platform state and the result rows of the response.
PlatformRespond(p, req) ==
  CASE req.op = "searchGeo" ->
         [p |-> p,
          rows |-> IF req.city \in DOMAIN GeoTable
                   THEN <<[NoRow EXCEPT !.geo = GeoTable[req.city]]>>
                   ELSE <<>>]
    [] req.op = "searchSet" ->
         [p |-> p, rows |-> SetRows(p.ruleSets, req.campaign, 1)]
    [] req.op = "searchCvr" ->
         [p |-> p,
          rows |-> IF req.id \in 1..Len(p.cvrs)
                   THEN <<[NoRow EXCEPT !.name = req.id,
                                        !.geos = p.cvrs[req.id].geos,
                                        !.value = p.cvrs[req.id].value]>>
                   ELSE <<>>]
    [] req.op = "createCvr" ->
         [p |-> [p EXCEPT !.cvrs = Append(@, [geos |-> <<req.geo>>,
                                              value |-> req.value])],
          rows |-> <<[NoRow EXCEPT !.name = Len(p.cvrs) + 1]>>]
    [] req.op = "updateCvr" ->
         [p |-> [p EXCEPT !.cvrs[req.id].value = req.value],
          rows |-> <<[NoRow EXCEPT !.name = req.id]>>]
    [] req.op = "createSet" ->
         [p |-> [p EXCEPT !.ruleSets = Append(@, [campaign |-> req.campaign,
                                                  rules |-> req.rules])],
          rows |-> <<[NoRow EXCEPT !.name = Len(p.ruleSets) + 1]>>]
    [] req.op = "updateSet" ->
         [p |-> [p EXCEPT !.ruleSets[req.id].rules = req.rules],
          rows |-> <<[NoRow EXCEPT !.name = req.id]>>]
    [] req.op = "searchById" ->
         [p |-> p,
          rows |-> EntityRows(p, EntitiesWithId(req.kind, <<"1", "2">>,
                                  {q[1] : q \in QueriedIds(req.ids)}))]
    [] req.op = "searchLabel" ->
         [p |-> p,
          rows |-> IF Len(req.label) = 1
                      /\ Labelled(req.kind, req.label[1]) # <<>>
                   THEN <<[resourceName |-> LabelResource(req.label[1]),
                           status |-> ""]>>
                   ELSE <<>>]
    [] req.op = "searchByLabel" ->
         [p |-> p,
          rows |-> IF Len(req.label) = 2
                   THEN EntityRows(p, Labelled(req.kind, req.label[2]))
                   ELSE <<>>]
    [] req.op = "searchCampaignLabel" ->
         [p |-> p,
          rows |-> IF Len(req.label) = 1
                   THEN EntityRows(p, Labelled("campaign", req.label[1]))
                   ELSE <<>>]
    [] req.op = "updateStatus" ->
         [p |-> [p EXCEPT !.status[req.resource] = req.status],
          rows |-> <<[resourceName |-> req.resource, status |-> ""]>>]

----------------------------------------------------------------------------
(* GoogleAdsApiClient *)

NoError == "none"

\* cacheKey: the url and the serialized params, which hold the method and
\* the payload but not forceCache
CacheKey(req, method) == [req |-> req, method |-> method]

HasEntry(c, key) == \E e \in c : e.key = key
Lookup(c, key) == (CHOOSE e \in c : e.key = key).rows

\* The run state threaded through one DAO call:
\*   p       the platform             cache   the client's cache
\*   log     requests sent over the network, each with the index of the
\*           campaign being processed (0 before the loop) and its outcome
\*   net     number of network requests sent so far
\*   failAt  the network request that is answered with a non-200 code (0: none)
\*   err     the exception in flight
\*   it      index of the campaign being processed
\*   iters   one record per campaign whose processing started
\*   calls   the agent's fetchUrl invocations
\*   named   the resource an error message names
\*   message the message of the error of a failed request

\* A fetchUrl that stores the responses of GET requests only
StoresResponseGetOnly(method, forceCache) == method = "get"

\* Whether fetchUrl stores the response of a request
StoresResponse(method, forceCache) == method = "get" \/ forceCache

\* The content text of a response with a code other than 200/204
ErrorBody == <<"error", "body">>

\* A failed request that is sent a second time before the error is thrown
FailedRequestRetried(s, req) ==
  [s EXCEPT !.net = @ + 2, !.err = "ApiError", !.message = ErrorBody,
            !.log = @ \o <<[it |-> s.it, req |-> req, ok |-> FALSE],
                           [it |-> s.it, req |-> req, ok |-> FALSE]>>]

\* fetchUrl on a code other than 200/204: one request was sent, and
\* throw new Error(resRaw.getContentText())
FailedRequest(s, req) ==
  [s EXCEPT !.net = @ + 1, !.err = "ApiError", !.message = ErrorBody,
            !.log = Append(@, [it |-> s.it, req |-> req, ok |-> FALSE])]

\* makeApiCall / fetchUrl: cache lookup, network request, error on a code
\* other than 200/204, caching of GET and forced requests
MakeApiCall(s, req, method, forceCache) ==
  IF s.err # NoError THEN [s |-> s, rows |-> <<>>]
  ELSE IF HasEntry(s.cache, CacheKey(req, method))
       THEN [s |-> s, rows |-> Lookup(s.cache, CacheKey(req, method))]
  ELSE IF s.net + 1 = s.failAt \/ ~QueryAccepted(req)
       THEN [s |-> FailedRequest(s, req), rows |-> <<>>]
       ELSE Only({
            [s |-> [s EXCEPT !.net = @ + 1, !.p = out.p,
                             !.log = Append(@, [it |-> s.it, req |-> req,
                                                ok |-> TRUE]),
                             !.cache = IF StoresResponse(method, forceCache)
                                       THEN @ \cup
                                            {[key |-> CacheKey(req, method),
                                              rows |-> out.rows]}
                                       ELSE @],
             rows |-> out.rows] : out \in {PlatformRespond(s.p, req)}})

----------------------------------------------------------------------------
(* GoogleAdsApiCampaignDaoImpl *)

\* getGeoTargetByName: res.results[0] of a response without rows is a
\* TypeError
GetGeoTargetByName(s, city) ==
  Only({IF r.s.err # NoError THEN [s |-> r.s, ret |-> ""]
        ELSE IF Len(r.rows) = 0
             THEN [s |-> [r.s EXCEPT !.err = "TypeError"], ret |-> ""]
             ELSE [s |-> r.s, ret |-> r.rows[1].geo] :
        r \in {MakeApiCall(s, SearchGeoReq(city), "POST", TRUE)}})

\* A createConversionValueRule that catches the error of a failed request
\* and returns the name the new CVR would have had
CreateConversionValueRuleUnchecked(s, geo, value) ==
  Only({[s |-> [r.s EXCEPT !.err = NoError],
         ret |-> IF Len(r.rows) > 0 THEN r.rows[1].name
                 ELSE Len(r.s.p.cvrs) + 1] :
        r \in {MakeApiCall(s, CreateCvrReq(geo, value), "POST", FALSE)}})

\* createConversionValueRule: returns the resource name of the new CVR
CreateConversionValueRule(s, geo, value) ==
  Only({[s |-> r.s, ret |-> IF Len(r.rows) > 0 THEN r.rows[1].name ELSE 0] :
        r \in {MakeApiCall(s, CreateCvrReq(geo, value), "POST", FALSE)}})

\* An updateConversionValueRule that writes to the customer's first CVR
UpdateConversionValueRuleOfFirst(s, id, value) ==
  MakeApiCall(s, UpdateCvrReq(1, value), "POST", FALSE).s

\* updateConversionValueRule
UpdateConversionValueRule(s, id, value) ==
  MakeApiCall(s, UpdateCvrReq(id, value), "POST", FALSE).s

\* A createConversionValueRuleSet that swallows a failed request
CreateConversionValueRuleSetLenient(s, c, rules) ==
  Only({IF r.s.err # NoError THEN [r.s EXCEPT !.err = NoError] ELSE r.s :
        r \in {MakeApiCall(s, CreateSetReq(c, rules), "POST", TRUE)}})

\* createConversionValueRuleSet: the request is marked forceCache
CreateConversionValueRuleSet(s, c, rules) ==
  Only({IF r.s.err # NoError THEN r.s
        ELSE IF Len(r.rows) > 0 THEN r.s
        ELSE [r.s EXCEPT !.err = "Error"] :
        r \in {MakeApiCall(s, CreateSetReq(c, rules), "POST", TRUE)}})

\* updateConversionValueRuleSet: full replacement of the member list
UpdateConversionValueRuleSet(s, id, rules) ==
  MakeApiCall(s, UpdateSetReq(id, rules), "POST", FALSE).s

\* getConversionValueRuleSetForCampaign: res.results
GetConversionValueRuleSetForCampaign(s, c) ==
  MakeApiCall(s, SearchSetReq(c), "POST", TRUE)

\* getConversionValueRule: the CVR row, or an error when there is none
GetConversionValueRule(s, id) ==
  Only({IF r.s.err # NoError THEN [s |-> r.s, ret |-> NoRow]
        ELSE IF Len(r.rows) = 0
             THEN [s |-> [r.s EXCEPT !.err = "Error"], ret |-> NoRow]
             ELSE [s |-> r.s, ret |-> r.rows[1]] :
        r \in {MakeApiCall(s, SearchCvrReq(id), "POST", TRUE)}})

\* The geo target a member CVR is compared by: geoTargetConstants[0]
CvrGeoTarget(cvr) == IF Len(cvr.geos) > 0 THEN cvr.geos[1] ELSE ""

RECURSIVE ScanRules(_, _, _, _)
\* The member scan of persistCvrForCampaigns: reads the members in order
\* and stops at the first one whose geo target is the target geo
ScanRules(s, existingRules, i, geoTargetResource) ==
  IF s.err # NoError \/ i > Len(existingRules)
  THEN [s |-> s, cvrForGeoExists |-> FALSE, cvrForGeoResourceName |-> 0,
        ruleValue |-> 0]
  ELSE Only({
       IF cur.s.err = NoError /\ CvrGeoTarget(cur.ret) = geoTargetResource
       THEN [s |-> cur.s, cvrForGeoExists |-> TRUE,
             cvrForGeoResourceName |-> existingRules[i],
             ruleValue |-> cur.ret.value]
       ELSE ScanRules(cur.s, existingRules, i + 1, geoTargetResource) :
       cur \in {GetConversionValueRule(s, existingRules[i])}})

\* Whether an existing CVR is updated: only when its value differs
NeedsUpdate(ruleValue, conversionWeight) == ruleValue # conversionWeight

\* The member list sent when a CVR is added to an existing rule-set
NewMemberList(existingRules, newCvr) == Append(existingRules, newCvr)

\* The branch of persistCvrForCampaigns for a campaign with a rule-set:
\* update the CVR of the geo, or create one and add it to the rule-set
ReconcileRuleSet(s, ruleSet, conversionWeight, geoTargetResource) ==
  Only({
    IF scan.s.err # NoError THEN scan.s
    ELSE IF scan.cvrForGeoExists
    THEN IF NeedsUpdate(scan.ruleValue, conversionWeight)
         THEN UpdateConversionValueRule(scan.s, scan.cvrForGeoResourceName,
                                        conversionWeight)
         ELSE scan.s
    ELSE Only({UpdateConversionValueRuleSet(n.s, ruleSet.name,
                 NewMemberList(ruleSet.rules, n.ret)) :
               n \in {CreateConversionValueRule(scan.s, geoTargetResource,
                                                conversionWeight)}}) :
    scan \in {ScanRules(s, ruleSet.rules, 1, geoTargetResource)}})

\* A no-rule-set branch that creates the rule-set before the CVR
CreateRuleSetBeforeCvr(s, c, conversionWeight, geoTargetResource) ==
  Only({CreateConversionValueRule(s1, geoTargetResource, conversionWeight).s :
        s1 \in {MakeApiCall(s, CreateSetReq(c, <<Len(s.p.cvrs) + 1>>),
                            "POST", TRUE).s}})

\* The branch for a campaign without a rule-set: create a CVR, then a
\* rule-set whose only member it is
CreateRuleSetWithCvr(s, c, conversionWeight, geoTargetResource) ==
  Only({CreateConversionValueRuleSet(n.s, c, <<n.ret>>) :
        n \in {CreateConversionValueRule(s, geoTargetResource,
                                         conversionWeight)}})

\* The body of the forEach of persistCvrForCampaigns for one campaign;
\* existingRules is the member list the engine read, if it found a rule-set
ProcessCampaign(s, c, conversionWeight, geoTargetResource) ==
  Only({IF s9.err = NoError
        THEN [s9 EXCEPT !.iters[Len(s9.iters)].done = TRUE]
        ELSE s9 :
    s9 \in {
      IF rs.s.err # NoError THEN rs.s
      ELSE IF Len(rs.rows) > 0
           THEN ReconcileRuleSet(
                  [rs.s EXCEPT !.iters[Len(rs.s.iters)].existingRules =
                                 rs.rows[1].rules],
                  rs.rows[1], conversionWeight, geoTargetResource)
           ELSE CreateRuleSetWithCvr(rs.s, c, conversionWeight,
                                     geoTargetResource) :
      rs \in {GetConversionValueRuleSetForCampaign(
                [s EXCEPT !.it = @ + 1,
                          !.iters = Append(@, [campaign |-> c, pre |-> s.p,
                                               existingRules |-> <<>>,
                                               done |-> FALSE])], c)}}})

RECURSIVE ForEachCampaign(_, _, _, _, _)
\* campaignResourceNames.forEach: an exception leaves the loop
ForEachCampaign(s, campaignResourceNames, i, conversionWeight, geoTargetResource) ==
  IF s.err # NoError \/ i > Len(campaignResourceNames) THEN s
  ELSE Only({ForEachCampaign(s1, campaignResourceNames, i + 1,
                             conversionWeight, geoTargetResource) :
             s1 \in {ProcessCampaign(s, campaignResourceNames[i],
                                     conversionWeight, geoTargetResource)}})

\* How persistCvrForCampaigns ends when the loop raised an error: the catch
\* block logs it and the method returns
LoopOutcome(err) == [outcome |-> "returned", thrown |-> NoError, logged |-> err]

\* The run state at the start of a DAO call
StartRun(p, c, failAt) ==
  [p |-> p, cache |-> c, log |-> <<>>, net |-> 0, failAt |-> failAt,
   err |-> NoError, it |-> 0, iters |-> <<>>, calls |-> <<>>, named |-> <<>>,
   message |-> <<>>]

\* persistCvrForCampaigns as a function of the platform, the cache and the
\* arguments; failAt is the network request the platform fails
PersistRun(p, c, campaignResourceNames, conversionWeight, geoTargetName, failAt) ==
  Only({
    IF g.s.err # NoError
    THEN [s |-> g.s, outcome |-> "threw", thrown |-> g.s.err, logged |-> NoError]
    ELSE Only({[s |-> s, outcome |-> LoopOutcome(s.err).outcome,
                thrown |-> LoopOutcome(s.err).thrown,
                logged |-> LoopOutcome(s.err).logged] :
               s \in {ForEachCampaign(g.s, campaignResourceNames, 1,
                                      conversionWeight, g.ret)}}) :
    g \in {GetGeoTargetByName(StartRun(p, c, failAt), geoTargetName)}})

----------------------------------------------------------------------------
(* State machine *)

\* CVRs that exist before the first call, all with the multiplier 1.10:
\* scoped to the geo of Paris, to a geo no call targets, or to two geos
InitCvrs == {[geos |-> g, value |-> 100 + 10] :
               g \in {<<"g1">>, <<"g3">>, <<"g2", "g1">>}}

\* Member lists over n CVRs, without repetition
InitRules(n) ==
  IF n = 0 THEN {}
  ELSE IF n = 1 THEN {<<1>>}
  ELSE {<<1>>, <<2>>, <<1, 2>>}

\* Rule-sets that exist before the first call: at most one per campaign,
\* and every CVR is a member of one of them
InitRuleSets(n) ==
  {rs \in {<<[campaign |-> "c1", rules |-> r]>> : r \in InitRules(n)}
          \cup {<<[campaign |-> "c1", rules |-> r1],
                   [campaign |-> "c2", rules |-> r2]>> :
                   r1 \in InitRules(n), r2 \in InitRules(n)} :
     \A k \in 1..n : \E i \in 1..Len(rs) : \E j \in 1..Len(rs[i].rules) :
        rs[i].rules[j] = k}

\* Every ad, ad group and campaign is enabled before the first call
InitStatus == [e \in Entities |-> "ENABLED"]

InitPlatforms ==
  {[cvrs |-> <<>>, ruleSets |-> <<>>, status |-> InitStatus]}
  \cup {[cvrs |-> <<a>>, ruleSets |-> rs, status |-> InitStatus] :
          a \in InitCvrs, rs \in InitRuleSets(1)}
  \cup {[cvrs |-> cv, ruleSets |-> rs, status |-> InitStatus] :
          cv \in {<<a, b>> : a \in InitCvrs, b \in InitCvrs} \ {<<a, a>> : a \in InitCvrs},
          rs \in InitRuleSets(2)}

NoCall == [n |-> 0, op |-> "none", campaigns |-> <<>>, weight |-> 0,
           city |-> "", outcome |-> "none", thrown |-> NoError,
           logged |-> NoError, log |-> <<>>, iters |-> <<>>,
           pre |-> [cvrs |-> <<>>, ruleSets |-> <<>>, status |-> InitStatus],
           fresh |-> TRUE]

\* agent: the arguments of the latest process or validate call, how it
\* ended, its requests, and the call it made on the campaign DAO
NoAgent == [n |-> 0, op |-> "none", identifier |-> <<>>, type |-> "",
            evaluation |-> FALSE, hasWeight |-> FALSE, rawWeight |-> 0,
            hasGeo |-> FALSE, outcome |-> "none", error |-> NoError,
            named |-> <<>>, dao |-> "none", campaigns |-> <<>>,
            multiplier |-> 0, geo |-> "", errors |-> <<>>, calls |-> <<>>,
            log |-> <<>>,
            pre |-> [cvrs |-> <<>>, ruleSets |-> <<>>, status |-> InitStatus],
            fresh |-> TRUE]

Init ==
  /\ platform \in InitPlatforms
  /\ cache = {}
  /\ last = NoCall
  /\ agent = NoAgent

\* Whether the platform failed a request of a call
Faulted(call) == \E i \in 1..Len(call.log) : ~call.log[i].ok

\* The record of a persistCvrForCampaigns call
CallRecord(r, cs, w, city) ==
  [n |-> last.n + 1, op |-> "persist", campaigns |-> cs, weight |-> w,
   city |-> city, outcome |-> r.outcome, thrown |-> r.thrown,
   logged |-> r.logged, log |-> r.s.log, iters |-> r.s.iters,
   pre |-> platform, fresh |-> cache = {}]

\* A caller invokes persistCvrForCampaigns on the live DAO instance and the
\* platform answers every request with 200
PersistCvrForCampaigns ==
  /\ last.n < MaxCalls
  /\ ~Faulted(last)
  /\ \E cs \in CampaignLists, w \in Weights, city \in CityNames :
     \E r \in {PersistRun(platform, cache, cs, w, city, 0)} :
       /\ platform' = r.s.p
       /\ cache' = r.s.cache
       /\ last' = CallRecord(r, cs, w, city)
       /\ UNCHANGED agent

\* The same call, but the platform answers one of its requests with a code
\* other than 200/204.  The model follows a behaviour up to the first call
\* with a failed request.
PersistCvrForCampaignsFailing ==
  /\ last.n < MaxCalls
  /\ ~Faulted(last)
  /\ \E cs \in CampaignLists, w \in Weights, city \in CityNames :
     \E failAt \in 1..PersistRun(platform, cache, cs, w, city, 0).s.net :
     \E r \in {PersistRun(platform, cache, cs, w, city, failAt)} :
       /\ platform' = r.s.p
       /\ cache' = r.s.cache
       /\ last' = CallRecord(r, cs, w, city)
       /\ UNCHANGED agent

\* A caller constructs a new GoogleAdsApiCampaignDaoImpl: the new client
\* starts with an empty cache
NewDao ==
  /\ cache # {}
  /\ cache' = {}
  /\ UNCHANGED <<platform, last, agent>>

Next ==
  \/ PersistCvrForCampaigns
  \/ PersistCvrForCampaignsFailing
  \/ NewDao

Spec == Init /\ [][Next]_vars

----------------------------------------------------------------------------
(* GoogleAdsApiClient called directly *)

MaxClientCalls == 3    \* makeApiCall calls in one behaviour

\* Requests of the direct calls: queries, and mutations that change what the
\* queries return
ClientRequests ==
  {SearchCvrReq(1), SearchSetReq("c1"), UpdateCvrReq(1, 125),
   UpdateCvrReq(1, 100 + 10), CreateSetReq("c1", <<1>>)}

Methods == {"get", "POST"}

\* The record of a makeApiCall call that ended in run state r.s
ClientRecord(req, method, forceCache, r) ==
  [n |-> last.n + 1, op |-> "makeApiCall", req |-> req, method |-> method,
   forceCache |-> forceCache,
   outcome |-> IF r.s.err = NoError THEN "returned" ELSE "threw",
   thrown |-> r.s.err, message |-> r.s.message, rows |-> r.rows,
   net |-> r.s.net, stored |-> r.s.cache # cache, log |-> r.s.log,
   pre |-> platform, fresh |-> cache = {}]

\* A caller invokes makeApiCall(path, method, payload, forceCache) on the
\* live client; the platform answers with 200 or with another code
MakeApiCallAction ==
  /\ last.n < MaxClientCalls
  /\ \E req \in ClientRequests, method \in Methods, forceCache \in BOOLEAN,
        failAt \in {0, 1} :
     \E r \in {MakeApiCall(StartRun(platform, cache, failAt), req, method,
                            forceCache)} :
       /\ platform' = r.s.p
       /\ cache' = r.s.cache
       /\ last' = ClientRecord(req, method, forceCache, r)
  /\ UNCHANGED agent

\* A caller constructs a new GoogleAdsApiClient: its cache is empty
NewClient ==
  /\ cache # {}
  /\ cache' = {}
  /\ UNCHANGED <<platform, last, agent>>

\* One CVR for Paris with the multiplier 1.10, member of c1's rule-set
InitClient ==
  /\ platform = [cvrs |-> <<[geos |-> <<"g1">>, value |-> 100 + 10]>>,
                 ruleSets |-> <<[campaign |-> "c1", rules |-> <<1>>]>>,
                 status |-> InitStatus]
  /\ cache = {}
  /\ last = NoCall
  /\ agent = NoAgent

NextClient ==
  \/ MakeApiCallAction
  \/ NewClient

SpecClient == InitClient /\ [][NextClient]_vars

----------------------------------------------------------------------------
(* GoogleAds agent: process and validate *)

MaxAgentCalls == 2    \* agent calls in one behaviour

CVR_ADJUSTMENT_LOWER_BOUND == -50
CVR_ADJUSTMENT_UPPER_BOUND == 1000

\* Identifiers are sequences of tokens: ids, label names and separators
Identifiers == {<<"1">>, <<"1", ";", "2">>, <<"1", ",", "2">>, <<"9">>,
                <<"promo">>, <<"ghost">>}
SelectorTypes == {"AD_ID", "AD_LABEL", "AD_GROUP_ID", "AD_GROUP_LABEL",
                  "CAMPAIGN_ID", "CAMPAIGN_LABEL"}
\* The selector types of the MANAGE_CONV_VALUE_RULE calls.  process hands
\* every type to handleManageConversionRule, which only asks whether the type
\* is CAMPAIGN_ID: both campaign types, and one id and one label type of the
\* others, which all take the else branch
ManageTypes == {"CAMPAIGN_ID", "CAMPAIGN_LABEL", "AD_GROUP_ID", "AD_LABEL"}

\* params.conversionWeight and params.geo, each of which may be undefined
WeightParams == {[hasWeight |-> FALSE, conversionWeight |-> 0]}
                \cup {[hasWeight |-> TRUE, conversionWeight |-> w] :
                        w \in RawWeights}
GeoParams == {[hasGeo |-> FALSE, geo |-> ""], [hasGeo |-> TRUE, geo |-> "Paris"]}

\* callApi of the agent's base class: the transport of section 4.1, which
\* the client's fetchUrl implements
CallApi(s, req, method, forceCache) == MakeApiCall(s, req, method, forceCache)

\* fetchUrl of the agent; calls lists the invocations, cached or not
FetchUrl(s, req, method, forceCache) ==
  IF s.err # NoError THEN [s |-> s, rows |-> <<>>]
  ELSE Only({[s |-> [r.s EXCEPT !.calls = Append(@, req)], rows |-> r.rows] :
             r \in {CallApi(s, req, method, forceCache)}})

\* getEntitiesByQuery: res.results.map of a response without rows is a
\* TypeError
GetEntitiesByQuery(s, req) ==
  Only({IF r.s.err # NoError THEN [s |-> r.s, ret |-> <<>>]
        ELSE IF r.rows = <<>>
             THEN [s |-> [r.s EXCEPT !.err = "TypeError"], ret |-> <<>>]
             ELSE [s |-> r.s, ret |-> r.rows] :
        r \in {FetchUrl(s, req, "POST", TRUE)}})

\* getAdsById, getAdGroupsById, getCampaingsById: <kind>.id IN (ids.join(','))
GetAdsById(s, ids) == GetEntitiesByQuery(s, SearchByIdReq("ad", Join(ids, ",")))
GetAdGroupsById(s, ids) ==
  GetEntitiesByQuery(s, SearchByIdReq("adGroup", Join(ids, ",")))
GetCampaingsById(s, ids) ==
  GetEntitiesByQuery(s, SearchByIdReq("campaign", Join(ids, ",")))

\* getAdLabelByName / getAdGroupLabelByName: a response without rows is the
\* error 'Label <labelName> not found'
LabelByName(s, kind, labelName) ==
  Only({IF r.s.err # NoError THEN [s |-> r.s, ret |-> <<>>]
        ELSE IF r.rows = <<>>
             THEN [s |-> [r.s EXCEPT !.err = "LabelNotFound",
                                     !.named = labelName], ret |-> <<>>]
             ELSE [s |-> r.s, ret |-> r.rows[1].resourceName] :
        r \in {FetchUrl(s, SearchLabelReq(kind, labelName), "POST", TRUE)}})

GetAdLabelByName(s, labelName) == LabelByName(s, "ad", labelName)
GetAdGroupLabelByName(s, labelName) == LabelByName(s, "adGroup", labelName)

\* getAdsByLabel, getAdGroupsByLabel: the label's resource name, then the
\* entities whose labels contain it
GetAdsByLabel(s, label) ==
  Only({GetEntitiesByQuery(l.s, SearchByLabelReq("ad", l.ret)) :
        l \in {GetAdLabelByName(s, label)}})
GetAdGroupsByLabel(s, label) ==
  Only({GetEntitiesByQuery(l.s, SearchByLabelReq("adGroup", l.ret)) :
        l \in {GetAdGroupLabelByName(s, label)}})

\* getCampaignsByLabel: one query on campaign_label by label.name
GetCampaignsByLabel(s, label) ==
  GetEntitiesByQuery(s, SearchCampaignLabelReq(label))

\* An updateEntityStatus that catches the error of a failed request
UpdateEntityStatusSwallowing(s, kind, entity, status) ==
  [FetchUrl(s, UpdateStatusReq(kind, entity.resourceName, status),
            "POST", FALSE).s EXCEPT !.err = NoError]

\* updateEntityStatus: one mutate request for one entity
UpdateEntityStatus(s, kind, entity, status) ==
  FetchUrl(s, UpdateStatusReq(kind, entity.resourceName, status),
           "POST", FALSE).s

\* A loop that leaves after its first entity
UpdateEachOnlyFirst(s, kind, entities, i, status) ==
  IF s.err # NoError \/ i > Len(entities) THEN s
  ELSE UpdateEntityStatus(s, kind, entities[i], status)

RECURSIVE UpdateEach(_, _, _, _, _)
\* for (const entity of entities) updateEntityStatus(path, entity, status)
UpdateEach(s, kind, entities, i, status) ==
  IF s.err # NoError \/ i > Len(entities) THEN s
  ELSE Only({UpdateEach(s1, kind, entities, i + 1, status) :
             s1 \in {UpdateEntityStatus(s, kind, entities[i], status)}})

\* update<Kind>StatusById / update<Kind>StatusByLabel: lookup, then the loop
UpdateAdStatusById(s, ids, status) ==
  Only({UpdateEach(f.s, "ad", f.ret, 1, status) : f \in {GetAdsById(s, ids)}})
UpdateAdStatusByLabel(s, label, status) ==
  Only({UpdateEach(f.s, "ad", f.ret, 1, status) :
        f \in {GetAdsByLabel(s, label)}})
UpdateAdGroupStatusById(s, ids, status) ==
  Only({UpdateEach(f.s, "adGroup", f.ret, 1, status) :
        f \in {GetAdGroupsById(s, ids)}})
UpdateAdGroupStatusByLabel(s, label, status) ==
  Only({UpdateEach(f.s, "adGroup", f.ret, 1, status) :
        f \in {GetAdGroupsByLabel(s, label)}})
UpdateCampaignStatusById(s, ids, status) ==
  Only({UpdateEach(f.s, "campaign", f.ret, 1, status) :
        f \in {GetCampaingsById(s, ids)}})
UpdateCampaignsByLabel(s, label, status) ==
  Only({UpdateEach(f.s, "campaign", f.ret, 1, status) :
        f \in {GetCampaignsByLabel(s, label)}})

\* The status a toggle sets and validate expects
StatusFor(evaluation) == IF evaluation THEN "ENABLED" ELSE "PAUSED"

\* handleToggle
HandleToggle(s, identifier, type, evaluation) ==
  CASE type = "AD_ID" ->
         UpdateAdStatusById(s, Split(identifier, ";"), StatusFor(evaluation))
    [] type = "AD_LABEL" ->
         UpdateAdStatusByLabel(s, identifier, StatusFor(evaluation))
    [] type = "AD_GROUP_ID" ->
         UpdateAdGroupStatusById(s, Split(identifier, ";"),
                                 StatusFor(evaluation))
    [] type = "AD_GROUP_LABEL" ->
         UpdateAdGroupStatusByLabel(s, identifier, StatusFor(evaluation))
    [] type = "CAMPAIGN_ID" ->
         UpdateCampaignStatusById(s, Split(identifier, ";"),
                                  StatusFor(evaluation))
    [] type = "CAMPAIGN_LABEL" ->
         UpdateCampaignsByLabel(s, identifier, StatusFor(evaluation))
    [] OTHER -> s

Max(a, b) == IF a >= b THEN a ELSE b
Min(a, b) == IF a <= b THEN a ELSE b

\* A clamp that leaves out the upper bound
ClampedAdjustmentNoUpperBound(conversionWeight) ==
  Max(CVR_ADJUSTMENT_LOWER_BOUND, conversionWeight)

\* clampedAdjustment
ClampedAdjustment(conversionWeight) ==
  Max(CVR_ADJUSTMENT_LOWER_BOUND,
      Min(conversionWeight, CVR_ADJUSTMENT_UPPER_BOUND))

\* finalAdjustment = 1 + clampedAdjustment
FinalAdjustment(conversionWeight) == 100 + ClampedAdjustment(conversionWeight)

\* What a handler hands back besides the run state
NoResult == [dao |-> "none", campaigns |-> <<>>, multiplier |-> 0, geo |-> "",
             errors |-> <<>>]

\* A map that keeps the first campaign only
ResourceNamesFirstOnly(entities) ==
  IF entities = <<>> THEN <<>> ELSE <<Head(entities).resourceName>>

RECURSIVE ResourceNames(_)
\* campaings.map(entity => entity.resourceName)
ResourceNames(entities) ==
  IF entities = <<>> THEN <<>>
  ELSE <<Head(entities).resourceName>> \o ResourceNames(Tail(entities))

\* A resolution that takes labels for CAMPAIGN_LABEL only and rejects the
\* selector types of ads and ad groups
ResolveCampaignsStrict(s, identifier, selectoryType) ==
  IF selectoryType = "CAMPAIGN_ID"
  THEN GetCampaingsById(s, Split(identifier, ";"))
  ELSE IF selectoryType = "CAMPAIGN_LABEL"
       THEN GetCampaignsByLabel(s, identifier)
       ELSE [s |-> [s EXCEPT !.err = "UnsupportedType"], ret |-> <<>>]

\* The campaigns handleManageConversionRule works on
ResolveCampaigns(s, identifier, selectoryType) ==
  IF selectoryType = "CAMPAIGN_ID"
  THEN GetCampaingsById(s, Split(identifier, ";"))
  ELSE GetCampaignsByLabel(s, identifier)

\* A handleManageConversionRule that takes the disable path before it
\* checks the parameters, and checks geo before the conversion weight
HandleManageConversionRuleDisableFirst(s, identifier, selectoryType, evaluation, wp, gp) ==
  IF ~evaluation
  THEN Only({
    IF found.s.err # NoError THEN [s |-> found.s, out |-> NoResult]
    ELSE [s |-> found.s,
          out |-> [NoResult EXCEPT !.dao = "disable",
                                   !.campaigns = ResourceNames(found.ret)]] :
    found \in {ResolveCampaigns(s, identifier, selectoryType)}})
  ELSE IF ~gp.hasGeo
  THEN [s |-> [s EXCEPT !.err = "NoGeo"], out |-> NoResult]
  ELSE IF ~wp.hasWeight
  THEN [s |-> [s EXCEPT !.err = "NoConversionWeight"], out |-> NoResult]
  ELSE Only({
    IF found.s.err # NoError THEN [s |-> found.s, out |-> NoResult]
    ELSE [s |-> found.s,
          out |-> [NoResult EXCEPT
                     !.dao = "persist",
                     !.campaigns = ResourceNames(found.ret),
                     !.multiplier = FinalAdjustment(wp.conversionWeight),
                     !.geo = gp.geo]] :
    found \in {ResolveCampaigns(s, identifier, selectoryType)}})

\* A handleManageConversionRule that looks the campaigns up before it checks
\* the parameters
HandleManageConversionRuleChecksLast(s, identifier, selectoryType, evaluation, wp, gp) ==
  Only({
    IF found.s.err # NoError THEN [s |-> found.s, out |-> NoResult]
    ELSE IF ~wp.hasWeight
    THEN [s |-> [found.s EXCEPT !.err = "NoConversionWeight"], out |-> NoResult]
    ELSE IF ~gp.hasGeo
    THEN [s |-> [found.s EXCEPT !.err = "NoGeo"], out |-> NoResult]
    ELSE [s |-> found.s,
          out |-> [NoResult EXCEPT
                     !.dao = IF evaluation THEN "persist" ELSE "disable",
                     !.campaigns = ResourceNames(found.ret)]] :
    found \in {ResolveCampaigns(s, identifier, selectoryType)}})

\* handleManageConversionRule: the parameter checks, the campaigns, and the
\* call on the EmptyCampaignDaoImpl it constructs, which logs the call and
\* sends nothing
HandleManageConversionRule(s, identifier, selectoryType, evaluation, wp, gp) ==
  IF ~wp.hasWeight
  THEN [s |-> [s EXCEPT !.err = "NoConversionWeight"], out |-> NoResult]
  ELSE IF ~gp.hasGeo
  THEN [s |-> [s EXCEPT !.err = "NoGeo"], out |-> NoResult]
  ELSE Only({
    IF found.s.err # NoError THEN [s |-> found.s, out |-> NoResult]
    ELSE IF ~evaluation
    THEN [s |-> found.s,
          out |-> [NoResult EXCEPT !.dao = "disable",
                                   !.campaigns = ResourceNames(found.ret)]]
    ELSE [s |-> found.s,
          out |-> [NoResult EXCEPT
                     !.dao = "persist",
                     !.campaigns = ResourceNames(found.ret),
                     !.multiplier = FinalAdjustment(wp.conversionWeight),
                     !.geo = gp.geo]] :
    found \in {ResolveCampaigns(s, identifier, selectoryType)}})

\* Entities to be checked that include the campaigns
EntitiesToBeCheckedWithCampaigns(s, identifier, type) ==
  CASE type = "AD_ID" -> GetAdsById(s, Split(identifier, ","))
    [] type = "AD_LABEL" -> GetAdsByLabel(s, identifier)
    [] type = "AD_GROUP_ID" -> GetAdGroupsById(s, Split(identifier, ","))
    [] type = "AD_GROUP_LABEL" -> GetAdGroupsByLabel(s, identifier)
    [] type = "CAMPAIGN_ID" -> GetCampaingsById(s, Split(identifier, ","))
    [] OTHER -> GetCampaignsByLabel(s, identifier)

\* validate: the entities to be checked
EntitiesToBeChecked(s, identifier, type) ==
  CASE type = "AD_ID" -> GetAdsById(s, Split(identifier, ","))
    [] type = "AD_LABEL" -> GetAdsByLabel(s, identifier)
    [] type = "AD_GROUP_ID" -> GetAdGroupsById(s, Split(identifier, ","))
    [] type = "AD_GROUP_LABEL" -> GetAdGroupsByLabel(s, identifier)
    [] OTHER -> [s |-> s, ret |-> <<>>]

RECURSIVE StatusErrors(_, _, _, _)
\* validate: one message for every entity whose status is not the expected
StatusErrors(entities, identifier, type, expectedStatus) ==
  IF entities = <<>> THEN <<>>
  ELSE (IF Head(entities).status # expectedStatus
        THEN <<[identifier |-> identifier, type |-> type,
                expected |-> expectedStatus, actual |-> Head(entities).status]>>
        ELSE <<>>)
       \o StatusErrors(Tail(entities), identifier, type, expectedStatus)

\* A validate that sets the expected status instead of reporting
ValidateApplying(s, identifier, type, evaluation) ==
  [s |-> HandleToggle(s, identifier, type, evaluation), out |-> NoResult]

\* validate
Validate(s, identifier, type, evaluation) ==
  Only({[s |-> found.s,
         out |-> [NoResult EXCEPT !.errors =
                    StatusErrors(found.ret, identifier, type,
                                 StatusFor(evaluation))]] :
        found \in {EntitiesToBeChecked(s, identifier, type)}})

\* The record of an agent call that ended in run state r.s
AgentRecord(op, identifier, type, evaluation, wp, gp, r) ==
  [n |-> agent.n + 1, op |-> op, identifier |-> identifier, type |-> type,
   evaluation |-> evaluation, hasWeight |-> wp.hasWeight,
   rawWeight |-> wp.conversionWeight, hasGeo |-> gp.hasGeo,
   outcome |-> IF r.s.err = NoError THEN "returned" ELSE "threw",
   error |-> r.s.err, named |-> r.s.named,
   dao |-> r.out.dao, campaigns |-> r.out.campaigns,
   multiplier |-> r.out.multiplier, geo |-> r.out.geo,
   errors |-> r.out.errors, calls |-> r.s.calls, log |-> r.s.log,
   pre |-> platform, fresh |-> cache = {}]

NoParams == [hasWeight |-> FALSE, conversionWeight |-> 0, hasGeo |-> FALSE,
             geo |-> ""]

\* process(identifier, type, TOGGLE, evaluation, params), the required
\* parameters customerId and developerToken present; the platform may fail
\* one of the requests
ProcessToggle ==
  /\ agent.n < MaxAgentCalls
  /\ \E identifier \in Identifiers, type \in SelectorTypes,
        evaluation \in BOOLEAN :
     \E failAt \in 0..HandleToggle(StartRun(platform, cache, 0), identifier,
                                   type, evaluation).net :
     \E s \in {HandleToggle(StartRun(platform, cache, failAt), identifier,
                            type, evaluation)} :
       /\ platform' = s.p
       /\ cache' = s.cache
       /\ agent' = AgentRecord("toggle", identifier, type, evaluation,
                               NoParams, NoParams, [s |-> s, out |-> NoResult])
  /\ UNCHANGED last

\* process(identifier, type, MANAGE_CONV_VALUE_RULE, evaluation, params)
ProcessManageConvValueRule ==
  /\ agent.n < MaxAgentCalls
  /\ \E identifier \in Identifiers, type \in ManageTypes,
        evaluation \in BOOLEAN, wp \in WeightParams, gp \in GeoParams :
     \E failAt \in 0..HandleManageConversionRule(
                         StartRun(platform, cache, 0), identifier, type,
                         evaluation, wp, gp).s.net :
     \E r \in {HandleManageConversionRule(
                  StartRun(platform, cache, failAt), identifier, type,
                  evaluation, wp, gp)} :
       /\ platform' = r.s.p
       /\ cache' = r.s.cache
       /\ agent' = AgentRecord("manageCvr", identifier, type, evaluation,
                               wp, gp, r)
  /\ UNCHANGED last

\* validate(identifier, type, action, evaluation, params)
ValidateCall ==
  /\ agent.n < MaxAgentCalls
  /\ \E identifier \in Identifiers, type \in SelectorTypes,
        evaluation \in BOOLEAN :
     \E failAt \in 0..Validate(StartRun(platform, cache, 0), identifier,
                               type, evaluation).s.net :
     \E r \in {Validate(StartRun(platform, cache, failAt), identifier,
                        type, evaluation)} :
       /\ platform' = r.s.p
       /\ cache' = r.s.cache
       /\ agent' = AgentRecord("validate", identifier, type, evaluation,
                               NoParams, NoParams, r)
  /\ UNCHANGED last

\* A caller constructs a new GoogleAds agent: its cache is empty
NewAgent ==
  /\ cache # {}
  /\ cache' = {}
  /\ UNCHANGED <<platform, last, agent>>

\* The agent never reaches the platform's CVRs: it starts from a platform
\* without CVRs
InitAgent ==
  /\ platform = [cvrs |-> <<>>, ruleSets |-> <<>>, status |-> InitStatus]
  /\ cache = {}
  /\ last = NoCall
  /\ agent = NoAgent

NextAgent ==
  \/ ProcessToggle
  \/ ProcessManageConvValueRule
  \/ ValidateCall
  \/ NewAgent

SpecAgent == InitAgent /\ [][NextAgent]_vars

----------------------------------------------------------------------------
(* Vocabulary of the properties *)

IsPersist(call) == call.op = "persist"

\* The geo target resource a call resolved its city name to
TargetGeo(call) == GeoTable[call.city]

\* The call resolved its geo and ran the loop without an error of any kind
Succeeded(call) ==
  /\ IsPersist(call)
  /\ call.outcome = "returned"
  /\ call.logged = NoError

\* The requests of a call that are mutations, in the order sent
RECURSIVE MutationReqs(_, _)
MutationReqs(log, it) ==
  IF log = <<>> THEN <<>>
  ELSE (IF IsMutation(Head(log).req) /\ (it = 0 \/ Head(log).it = it)
        THEN <<Head(log).req>> ELSE <<>>) \o MutationReqs(Tail(log), it)

\* All mutations of a call / the mutations sent while processing campaign it
Mutations(call) == MutationReqs(call.log, 0)
MutationsOf(call, it) == MutationReqs(call.log, it)

IsPrefix(a, b) == Len(a) <= Len(b) /\ \A i \in 1..Len(a) : a[i] = b[i]

\* The rule-sets the platform holds for a campaign
SetsOf(p, c) == {i \in 1..Len(p.ruleSets) : p.ruleSets[i].campaign = c}

\* The member CVRs of a campaign's rule-sets
MembersOf(p, c) == UNION {Range(p.ruleSets[i].rules) : i \in SetsOf(p, c)}

\* A CVR is scoped to a geo
ScopedTo(cvr, g) == g \in Range(cvr.geos)

\* The members of a campaign's rule-sets that are scoped to a geo
MembersFor(p, c, g) == {k \in MembersOf(p, c) : ScopedTo(p.cvrs[k], g)}

\* The campaign has a rule-set with a CVR scoped to g whose multiplier is w
Holds(p, c, g, w) == \E k \in MembersFor(p, c, g) : p.cvrs[k].value = w

----------------------------------------------------------------------------
(* Reconciliation engine: C1 .. C6 *)

\* The number of CVR creates and updates a call sent
CvrWrites(call) ==
  Cardinality({i \in 1..Len(call.log) :
                 call.log[i].req.op \in {"createCvr", "updateCvr"}})

\* This step is the second of two consecutive successful calls with the
\* same arguments for one campaign, and before the first call the platform
\* did not hold the multiplier for the geo
C1_SecondCall ==
  /\ IsPersist(last)
  /\ last'.n = last.n + 1
  /\ Len(last.campaigns) = 1
  /\ last'.campaigns = last.campaigns
  /\ last'.weight = last.weight
  /\ last'.city = last.city
  /\ Succeeded(last)
  /\ Succeeded(last')
  /\ ~Holds(last.pre, last.campaigns[1], TargetGeo(last), last.weight)

\* C1: idempotence.  Of two consecutive calls of persistCvrForCampaigns
\* with the same campaign, geo and multiplier, the first sends exactly one
\* CVR create or update and the second sends no mutation at all, on the
\* same DAO instance as well as on a new one.
C1_Idempotence ==
  [][C1_SecondCall => (CvrWrites(last) = 1 /\ Mutations(last') = <<>>)]_vars

\* This step is a successful call for the one campaign c, which has one
\* rule-set and in it no member scoped to the target geo
C2_Call(c) ==
  /\ last'.n = last.n + 1
  /\ last'.campaigns = <<c>>
  /\ Succeeded(last')
  /\ Cardinality(SetsOf(platform, c)) = 1
  /\ MembersFor(platform, c, TargetGeo(last')) = {}

\* C2: membership preservation.  When the rule-set of the target campaign
\* has no member for the target geo, its members after the call are the
\* members the platform held just before the call plus the CVR the call
\* created.
C2_MembershipPreserved ==
  [][\A c \in Campaigns :
       C2_Call(c) =>
         /\ SetsOf(platform', c) = SetsOf(platform, c)
         /\ \A i \in SetsOf(platform, c) :
              \E k \in (1..Len(platform'.cvrs)) \ (1..Len(platform.cvrs)) :
                /\ Range(platform'.ruleSets[i].rules)
                     = Range(platform.ruleSets[i].rules) \cup {k}
                /\ Len(platform'.cvrs) = Len(platform.cvrs) + 1]_vars

\* C3: convergence.  After a call that reported no failure every target
\* campaign has a rule-set with a CVR scoped to the target geo whose
\* multiplier is the requested one.
C3_Convergence ==
  Succeeded(last) =>
    \A c \in Range(last.campaigns) :
      Holds(platform, c, TargetGeo(last), last.weight)

\* The mutations the no-rule-set branch is to send for campaign number it
C4_Expected(call, it) ==
  <<CreateCvrReq(TargetGeo(call), call.weight),
    CreateSetReq(call.iters[it].campaign,
                 <<Len(call.iters[it].pre.cvrs) + 1>>)>>

\* C4: a campaign without a rule-set on the platform gets exactly two
\* mutations, in this order: the creation of a CVR for the target geo and
\* the creation of a rule-set for the campaign whose only member is the
\* new CVR.  A failed request ends the sequence early, never changes it.
C4_NoRuleSetBranch ==
  \A it \in 1..Len(last.iters) :
    SetsOf(last.iters[it].pre, last.iters[it].campaign) = {} =>
      /\ IsPrefix(MutationsOf(last, it), C4_Expected(last, it))
      /\ last.iters[it].done => MutationsOf(last, it) = C4_Expected(last, it)

\* A campaign without a rule-set was processed to the end
C4_Witness ==
  \E it \in 1..Len(last.iters) :
    /\ SetsOf(last.iters[it].pre, last.iters[it].campaign) = {}
    /\ last.iters[it].done
    /\ Len(MutationsOf(last, it)) = 2

\* The call names one campaign and processed it to the end; the campaign
\* has one rule-set, in it exactly one member scoped to the target geo, and
\* that member is scoped to it alone
C5_HasCvrForGeo(call, it, k) ==
  LET pre == call.iters[it].pre
      c == call.iters[it].campaign
  IN /\ Len(call.campaigns) = 1
     /\ call.iters[it].done
     /\ Cardinality(SetsOf(pre, c)) = 1
     /\ MembersFor(pre, c, TargetGeo(call)) = {k}
     /\ pre.cvrs[k].geos = <<TargetGeo(call)>>

\* C5: when the member CVR of the target geo has another multiplier than
\* the requested one, the campaign gets exactly one mutation, the update
\* of that CVR to the requested multiplier.
C5_UpdateInPlace ==
  \A it \in 1..Len(last.iters) :
    \A k \in 1..Len(last.iters[it].pre.cvrs) :
      (C5_HasCvrForGeo(last, it, k)
         /\ last.iters[it].pre.cvrs[k].value # last.weight)
      => MutationsOf(last, it) = <<UpdateCvrReq(k, last.weight)>>

\* C6: when the member CVR of the target geo already has the requested
\* multiplier on the platform, the campaign gets no mutation.
C6_NoOpWhenEqual ==
  \A it \in 1..Len(last.iters) :
    \A k \in 1..Len(last.iters[it].pre.cvrs) :
      (C5_HasCvrForGeo(last, it, k)
         /\ last.iters[it].pre.cvrs[k].value = last.weight)
      => MutationsOf(last, it) = <<>>

----------------------------------------------------------------------------
(* Conversion weight: C7 *)

\* max(-0.5, min(w, 10.0)), written out by cases
C7_Clamp(w) == IF w < -50 THEN -50 ELSE IF w > 1000 THEN 1000 ELSE w

\* C7: the multiplier the MANAGE_CONV_VALUE_RULE path hands to
\* persistCvrForCampaigns is 1 + max(-0.5, min(w, 10.0)) for the raw weight
\* w, so it lies in [0.5, 11.0]; 15 gives 11.0, -2 gives 0.5 and 0.25 gives
\* 1.25.
C7_MultiplierClamped ==
  agent.dao = "persist" =>
    /\ agent.multiplier = 100 + C7_Clamp(agent.rawWeight)
    /\ agent.multiplier \in 50..1100
    /\ agent.rawWeight = 1500 => agent.multiplier = 1100
    /\ agent.rawWeight = -200 => agent.multiplier = 50
    /\ agent.rawWeight = 25 => agent.multiplier = 125

\* A weight above the upper bound was handed to the DAO as 11.0
C7_Witness ==
  /\ agent.dao = "persist"
  /\ agent.rawWeight = 1500
  /\ agent.multiplier = 1100

----------------------------------------------------------------------------
(* Failures: C8 .. C10 *)

\* C8: per-campaign isolation.  A failure while one campaign is reconciled
\* does not keep the campaigns after it from being reconciled: once the geo
\* is resolved, the processing of every campaign of the list starts.
C8_Isolation ==
  (IsPersist(last) /\ last.outcome = "returned")
    => Len(last.iters) = Len(last.campaigns)

\* The platform failed a request sent while a campaign was reconciled
FaultedInLoop(call) ==
  \E i \in 1..Len(call.log) : ~call.log[i].ok /\ call.log[i].it >= 1

\* C9: error propagation.  A transport failure on a query or mutation made
\* while a campaign is reconciled makes persistCvrForCampaigns fail: the
\* error reaches the caller.
C9_ErrorPropagates ==
  (IsPersist(last) /\ FaultedInLoop(last)) => last.outcome = "threw"

\* Request number i of the call is a failed createConversionValueRuleSet
\* that follows a successful createConversionValueRule for the same campaign
C10_FailedAfterCreate(call, i) ==
  /\ i \in 2..Len(call.log)
  /\ call.log[i].req.op = "createSet"
  /\ ~call.log[i].ok
  /\ call.log[i - 1].req.op = "createCvr"
  /\ call.log[i - 1].ok
  /\ call.log[i - 1].it = call.log[i].it

\* C10: no rollback.  When the creation of the rule-set fails after the
\* creation of the CVR succeeded, the reconciliation of the campaign fails,
\* the new CVR stays on the platform as a member of no rule-set, and the
\* engine sends no further request.
C10_NoRollback ==
  \A i \in 1..Len(last.log) :
    C10_FailedAfterCreate(last, i) =>
      LET it == last.log[i].it
          k == last.log[i].req.rules[1]
      IN /\ ~last.iters[it].done
         /\ last.logged = "ApiError"
         /\ i = Len(last.log)
         /\ k \in 1..Len(platform.cvrs)
         /\ k \notin 1..Len(last.iters[it].pre.cvrs)
         /\ platform.cvrs[k] = [geos |-> <<TargetGeo(last)>>,
                                value |-> last.weight]
         /\ \A j \in 1..Len(platform.ruleSets) :
              k \notin Range(platform.ruleSets[j].rules)

\* A rule-set creation failed after the CVR was created
C10_Witness ==
  \E i \in 1..Len(last.log) : C10_FailedAfterCreate(last, i)

----------------------------------------------------------------------------
(* Target agent: C11 .. C16, C20 *)

\* The latest agent call is a process call with MANAGE_CONV_VALUE_RULE
IsManageCvr(call) == call.op = "manageCvr"

\* The call sent nothing to the platform: no fetchUrl invocation, no request
SentNothing(call) == call.calls = <<>> /\ call.log = <<>>

\* C11: process with MANAGE_CONV_VALUE_RULE fails when conversionWeight or
\* geo is absent, with an error that names a missing field (the conversion
\* weight when it is absent, geo when only geo is absent), and it fails
\* before any query or mutation is sent to the platform.
C11_ParameterErrors ==
  IsManageCvr(agent) =>
    /\ ~agent.hasWeight =>
         /\ agent.outcome = "threw"
         /\ agent.error = "NoConversionWeight"
         /\ SentNothing(agent)
         /\ agent.dao = "none"
    /\ (agent.hasWeight /\ ~agent.hasGeo) =>
         /\ agent.outcome = "threw"
         /\ agent.error = "NoGeo"
         /\ SentNothing(agent)
         /\ agent.dao = "none"

\* A call with the conversion weight but without geo failed
C11_Witness ==
  /\ IsManageCvr(agent)
  /\ agent.hasWeight
  /\ ~agent.hasGeo
  /\ agent.error = "NoGeo"

\* The requests of an agent call that are mutations and reached the network
NetworkMutations(call) ==
  {i \in 1..Len(call.log) : IsMutation(call.log[i].req) /\ call.log[i].ok}

\* C12: process with MANAGE_CONV_VALUE_RULE, evaluation true and both
\* parameters resolves the campaigns and hands them to the reconciliation
\* engine, which sends the mutations needed: for campaigns without a CVR for
\* the geo at least one mutation reaches the platform.
C12_ReachesPlatform ==
  (IsManageCvr(agent) /\ agent.evaluation /\ agent.outcome = "returned"
     /\ agent.campaigns # <<>> /\ agent.pre.cvrs = <<>>)
    => NetworkMutations(agent) # {}

\* Selector types that carry ids, and the kind of entity of a selector type
IdTypes == {"AD_ID", "AD_GROUP_ID", "CAMPAIGN_ID"}
KindOf(type) ==
  CASE type \in {"AD_ID", "AD_LABEL"} -> "ad"
    [] type \in {"AD_GROUP_ID", "AD_GROUP_LABEL"} -> "adGroup"
    [] OTHER -> "campaign"

\* An identifier with every ';' turned into the ',' of a query's id list
C13_IdList(identifier) ==
  [i \in DOMAIN identifier |->
     IF identifier[i] = ";" THEN "," ELSE identifier[i]]

\* The entities of the call's kind whose id the identifier holds
C13_Expected(call) ==
  {EntityTable[KindOf(call.type)][call.identifier[i]] :
     i \in {j \in DOMAIN call.identifier :
              call.identifier[j] \in DOMAIN EntityTable[KindOf(call.type)]}}

\* The status mutations an agent call invoked, by position in its calls
StatusCalls(call) ==
  {i \in 1..Len(call.calls) : call.calls[i].op = "updateStatus"}

\* C13: a TOGGLE with an id selector splits the identifier on ';' ("1;2" is
\* the ids 1 and 2), sends one lookup for those ids, and then exactly one
\* status mutation per entity of the lookup, with ENABLED when evaluation is
\* true and PAUSED when it is false: no entity twice, none skipped.
C13_ToggleById ==
  (agent.op = "toggle" /\ agent.type \in IdTypes) =>
    /\ agent.calls # <<>>
    /\ agent.calls[1] = SearchByIdReq(KindOf(agent.type),
                                      C13_IdList(agent.identifier))
    /\ agent.identifier = <<"1", ";", "2">> =>
         QueriedIds(agent.calls[1].ids) = {<<"1">>, <<"2">>}
    /\ agent.outcome = "returned" =>
         /\ StatusCalls(agent) = 2..Len(agent.calls)
         /\ Len(agent.calls) = 1 + Cardinality(C13_Expected(agent))
         /\ {agent.calls[i].resource : i \in StatusCalls(agent)}
              = C13_Expected(agent)
         /\ \A i \in StatusCalls(agent) :
              /\ agent.calls[i].kind = KindOf(agent.type)
              /\ agent.calls[i].status
                   = (IF agent.evaluation THEN "ENABLED" ELSE "PAUSED")
         /\ {agent.log[i].req : i \in NetworkMutations(agent)}
              = {agent.calls[i] : i \in StatusCalls(agent)}
         /\ Cardinality(NetworkMutations(agent))
              = Cardinality(C13_Expected(agent))
         /\ \A e \in Entities :
              platform.status[e]
                = IF e \in C13_Expected(agent)
                  THEN (IF agent.evaluation THEN "ENABLED" ELSE "PAUSED")
                  ELSE agent.pre.status[e]

\* A toggle of the ads 1 and 2, given as "1;2", paused both
C13_Witness ==
  /\ agent.op = "toggle"
  /\ agent.type = "AD_ID"
  /\ agent.identifier = <<"1", ";", "2">>
  /\ ~agent.evaluation
  /\ agent.outcome = "returned"
  /\ Len(agent.calls) = 3
  /\ platform.status["a1"] = "PAUSED"
  /\ platform.status["a2"] = "PAUSED"

\* Selector types validate handles
ValidatedTypes == {"AD_ID", "AD_LABEL", "AD_GROUP_ID", "AD_GROUP_LABEL"}

\* The entities a validate call resolved: those of its lookup by id, or
\* those that carry its label
C14_Resolved(call) ==
  IF call.type \in IdTypes
  THEN EntitiesWithId(KindOf(call.type), <<"1", "2">>,
                      {q[1] : q \in QueriedIds(call.identifier)})
  ELSE IF Len(call.identifier) = 1
       THEN Labelled(KindOf(call.type), call.identifier[1])
       ELSE <<>>

RECURSIVE C14_Messages(_, _, _)
\* One message per entity of a list whose status on the platform p differs
\* from the expected one
C14_Messages(call, p, entities) ==
  IF entities = <<>> THEN <<>>
  ELSE (IF p.status[Head(entities)]
            # (IF call.evaluation THEN "ENABLED" ELSE "PAUSED")
        THEN <<[identifier |-> call.identifier, type |-> call.type,
                expected |-> IF call.evaluation THEN "ENABLED" ELSE "PAUSED",
                actual |-> p.status[Head(entities)]]>>
        ELSE <<>>) \o C14_Messages(call, p, Tail(entities))

\* C14: validate for AD_ID, AD_LABEL, AD_GROUP_ID and AD_GROUP_LABEL returns
\* exactly one message 'Status for <identifier> (<type>) should be <expected>
\* but is <live>' per resolved entity whose live status differs from the
\* expected one, and the empty list exactly when every resolved entity has
\* the expected status.
C14_ValidateReports ==
  (agent.op = "validate" /\ agent.type \in ValidatedTypes
     /\ agent.outcome = "returned")
    => agent.errors = C14_Messages(agent, agent.pre, C14_Resolved(agent))

\* C15: validate is read-only.  For every selector type and evaluation it
\* invokes no mutation, and the statuses, CVRs and rule-sets of the platform
\* are the same after the call as before it.
C15_ValidateReadOnly ==
  agent.op = "validate" =>
    /\ \A i \in 1..Len(agent.calls) : ~IsMutation(agent.calls[i])
    /\ \A i \in 1..Len(agent.log) : ~IsMutation(agent.log[i].req)
    /\ platform = agent.pre

\* A validate call looked two ads up by label and reported both
C15_Witness ==
  /\ agent.op = "validate"
  /\ agent.type = "AD_LABEL"
  /\ agent.outcome = "returned"
  /\ ~agent.evaluation
  /\ Len(agent.errors) = 2
  /\ Len(agent.log) = 2

\* The agent call resolves ads, ad groups or campaigns by label
C16_ByLabel(call) ==
  \/ call.op = "toggle"
     /\ call.type \in {"AD_LABEL", "AD_GROUP_LABEL", "CAMPAIGN_LABEL"}
  \/ call.op = "validate" /\ call.type \in {"AD_LABEL", "AD_GROUP_LABEL"}
  \/ call.op = "manageCvr" /\ call.type = "CAMPAIGN_LABEL"
     /\ call.hasWeight /\ call.hasGeo

\* The label lookup of the call was answered, with zero rows: no entity of
\* the kind carries a label of that name
C16_ZeroRows(call) ==
  /\ call.error # "ApiError"
  /\ Len(call.identifier) = 1 =>
       Labelled(KindOf(call.type), call.identifier[1]) = <<>>

\* C16: label-based resolution of ads, ad groups and campaigns (TOGGLE,
\* validate, MANAGE_CONV_VALUE_RULE) fails with a not-found error that names
\* the label whenever the label lookup returns zero rows, and then no status
\* or CVR mutation is issued.
C16_LabelNotFound ==
  (C16_ByLabel(agent) /\ C16_ZeroRows(agent)) =>
    /\ agent.outcome = "threw"
    /\ agent.error = "LabelNotFound"
    /\ agent.named = agent.identifier
    /\ \A i \in 1..Len(agent.calls) : ~IsMutation(agent.calls[i])
    /\ agent.dao = "none"

----------------------------------------------------------------------------
(* Transport: C17 .. C19 *)

\* The step is a makeApiCall call
ClientStep == last'.op = "makeApiCall" /\ last'.n = last.n + 1

\* The cache key of the latest makeApiCall call
KeyOf(call) == CacheKey(call.req, call.method)

\* C17: a client call whose response has a code other than 200/204 fails
\* with an error that carries the raw response body, after exactly one
\* network request (no retry), and stores nothing in the cache, so that the
\* identical call made next sends a new network request.
C17_FailureNotCached ==
  [][ClientStep =>
       /\ last'.outcome = "threw" =>
            /\ last'.net = 1
            /\ Len(last'.log) = 1
            /\ last'.thrown = "ApiError"
            /\ last'.message = ErrorBody
            /\ cache' = cache
            /\ ~HasEntry(cache', KeyOf(last'))
            /\ platform' = platform
       /\ (last.op = "makeApiCall" /\ last.outcome = "threw"
             /\ last'.req = last.req /\ last'.method = last.method) =>
            last'.net = 1]_vars

\* A forced call, the third on the client, failed after one request
C17_Witness ==
  /\ last.op = "makeApiCall"
  /\ last.n = 3
  /\ last.outcome = "threw"
  /\ last.forceCache
  /\ last.net = 1
  /\ last.pre = platform

\* C18: once the response of a successful GET or forced call is stored
\* under its (url, params) key, every later call with that key on the same
\* client instance returns the stored response and sends no network
\* request, whatever mutations were sent in between.
C18_Memoized ==
  [][ClientStep =>
       /\ \A e \in cache : e \in cache'
       /\ \A e1, e2 \in cache' : e1.key = e2.key => e1 = e2
       /\ HasEntry(cache, KeyOf(last')) =>
            /\ last'.outcome = "returned"
            /\ last'.rows = Lookup(cache, KeyOf(last'))
            /\ last'.net = 0
            /\ platform' = platform
       /\ (last'.outcome = "returned"
             /\ (last'.method = "get" \/ last'.forceCache)) =>
            /\ HasEntry(cache', KeyOf(last'))
            /\ Lookup(cache', KeyOf(last')) = last'.rows]_vars

\* A forced POST query of CVR 1 was answered from the cache with the
\* multiplier from before an update
C18_Witness ==
  /\ last.op = "makeApiCall"
  /\ last.req = SearchCvrReq(1)
  /\ last.method = "POST"
  /\ last.forceCache
  /\ last.outcome = "returned"
  /\ last.net = 0
  /\ last.rows # <<>>
  /\ last.rows[1].value # platform.cvrs[1].value

\* C19: a POST through makeApiCall without forceCache is never cached.  It
\* always sends a network request and its response is never stored,
\* whatever calls were made before it, forced or not, with the same url and
\* payload or not.
C19_PostNeverCached ==
  (last.op = "makeApiCall" /\ last.method = "POST" /\ ~last.forceCache) =>
    /\ last.net = 1
    /\ ~last.stored

----------------------------------------------------------------------------
(* Target agent, disable path: C20 *)

\* The campaigns a MANAGE_CONV_VALUE_RULE call resolved, in platform order:
\* those whose id the identifier holds, or those that carry the label
C20_Resolved(call) ==
  IF call.type = "CAMPAIGN_ID"
  THEN EntitiesWithId("campaign", <<"1", "2">>,
                      {call.identifier[i] : i \in DOMAIN call.identifier})
  ELSE Labelled("campaign", call.identifier[1])

\* C20: process with MANAGE_CONV_VALUE_RULE and evaluation false never runs
\* the per-geo reconciliation.  It invokes disableAllCvrsForCampaigns with
\* exactly the resource names of the resolved campaigns, and no CVR or
\* rule-set is created or updated.
C20_DisablePath ==
  (IsManageCvr(agent) /\ ~agent.evaluation /\ agent.outcome = "returned") =>
    /\ agent.dao = "disable"
    /\ agent.campaigns = C20_Resolved(agent)
    /\ agent.multiplier = 0
    /\ agent.geo = ""
    /\ \A i \in 1..Len(agent.calls) : ~IsMutation(agent.calls[i])
    /\ NetworkMutations(agent) = {}
    /\ platform = agent.pre

\* A disable call for the two campaigns that carry the label promo
C20_Witness ==
  /\ IsManageCvr(agent)
  /\ ~agent.evaluation
  /\ agent.outcome = "returned"
  /\ agent.type = "CAMPAIGN_LABEL"
  /\ agent.dao = "disable"
  /\ agent.campaigns = <<"c1", "c2">>

----------------------------------------------------------------------------
(* Reconciliation engine: C21 .. C26 *)

\* The geo lookups a call sent over the network, by position in its log
GeoRequests(call) ==
  {i \in 1..Len(call.log) : call.log[i].req.op = "searchGeo"}

\* C21: persistCvrForCampaigns resolves the geo target once per call and
\* before any campaign is processed.  When the geo lookup returns zero rows
\* the call fails with a not-found error that names the geo, the failure
\* reaches the caller, and no rule-set query and no mutation was sent.
C21_GeoResolvedFirst ==
  IsPersist(last) =>
    /\ GeoRequests(last) \subseteq {1}
    /\ \A i \in GeoRequests(last) : last.log[i].it = 0
    /\ (last.city \notin DOMAIN GeoTable /\ ~Faulted(last)) =>
         /\ last.outcome = "threw"
         /\ last.thrown = "GeoNotFound"
         /\ \A i \in 1..Len(last.log) : last.log[i].req.op = "searchGeo"
         /\ platform = last.pre

\* The engine selected a member CVR for campaign number it of a call: it
\* created no CVR for that campaign
C22_Selected(call, it) ==
  \A i \in 1..Len(MutationsOf(call, it)) :
    MutationsOf(call, it)[i].op # "createCvr"

\* C22: match rule.  A member CVR of the campaign's rule-set is selected as
\* the CVR for the target geo if and only if its geoTargetConstants list
\* contains the geo target's resource name, wherever the name stands in the
\* list, also for a CVR scoped to several geos.  Stated for the first
\* campaign of a call on a new DAO instance, where every row the engine
\* reads is the platform's.
C22_MatchRule ==
  (IsPersist(last) /\ last.fresh /\ last.iters # <<>> /\ last.iters[1].done
     /\ Cardinality(SetsOf(last.iters[1].pre, last.iters[1].campaign)) = 1)
    => (C22_Selected(last, 1)
          <=> MembersFor(last.iters[1].pre, last.iters[1].campaign,
                         TargetGeo(last)) # {})

\* C24: at most one rule-set per campaign.  createConversionValueRuleSet is
\* sent for a campaign only when the platform holds no rule-set for it at
\* that moment, so after any sequence of persistCvrForCampaigns calls, also
\* repeated calls on one DAO instance and lists that name a campaign twice,
\* no campaign has more than one rule-set.
C24_OneRuleSetPerCampaign ==
  /\ \A c \in Campaigns : Cardinality(SetsOf(platform, c)) <= 1
  /\ IsPersist(last) =>
       \A it \in 1..Len(last.iters) :
         (\E i \in 1..Len(MutationsOf(last, it)) :
            MutationsOf(last, it)[i].op = "createSet")
           => SetsOf(last.iters[it].pre, last.iters[it].campaign) = {}

\* C25: frame.  persistCvrForCampaigns changes neither the rule-set
\* membership nor the multiplier of a member CVR of any campaign that is not
\* in its campaignResourceNames argument, also when a CVR is a member of the
\* rule-sets of a target and of a non-target campaign.
C25_OtherCampaignsUntouched ==
  IsPersist(last) =>
    \A c \in Campaigns \ Range(last.campaigns) :
      /\ SetsOf(platform, c) = SetsOf(last.pre, c)
      /\ \A i \in SetsOf(last.pre, c) :
           platform.ruleSets[i].rules = last.pre.ruleSets[i].rules
      /\ \A k \in MembersOf(last.pre, c) :
           platform.cvrs[k].value = last.pre.cvrs[k].value

\* The member CVRs of the rule-sets of the campaigns a call names
C25_TargetMembers(call) ==
  UNION {MembersOf(call.pre, d) : d \in Range(call.campaigns)}

\* C25, amended: persistCvrForCampaigns changes the rule-set membership of
\* no campaign outside its campaignResourceNames argument, and the
\* multiplier of no member CVR of such a campaign unless the CVR is also a
\* member of a rule-set of a campaign the call names.
C25_Frame ==
  IsPersist(last) =>
    \A c \in Campaigns \ Range(last.campaigns) :
      /\ SetsOf(platform, c) = SetsOf(last.pre, c)
      /\ \A i \in SetsOf(last.pre, c) :
           platform.ruleSets[i].rules = last.pre.ruleSets[i].rules
      /\ \A k \in MembersOf(last.pre, c) \ C25_TargetMembers(last) :
           platform.cvrs[k].value = last.pre.cvrs[k].value

\* A call for c1 updated a CVR of c1 while c2 has a rule-set with a member
\* of its own, which kept its multiplier
C25_Witness ==
  /\ IsPersist(last)
  /\ last.campaigns = <<"c1">>
  /\ \E i \in 1..Len(last.log) :
       last.log[i].req.op = "updateCvr" /\ last.log[i].ok
  /\ MembersOf(last.pre, "c2") \ C25_TargetMembers(last) # {}
  /\ \A k \in MembersOf(last.pre, "c2") \ C25_TargetMembers(last) :
       platform.cvrs[k].value = last.pre.cvrs[k].value

\* The CVR creations the platform completed within the first j requests of
\* a call, by position in the call's log
CreatedBefore(call, j) ==
  {i \in 1..(j - 1) : call.log[i].req.op = "createCvr" /\ call.log[i].ok}

\* The resource name the platform gave the CVR created by request i
CreatedName(call, i) ==
  Len(call.pre.cvrs) + Cardinality(CreatedBefore(call, i + 1))

\* C26: referential order.  Every CVR name in the payload of a rule-set
\* create or update is a member the engine read from the campaign's
\* rule-set, or the name returned by a createConversionValueRule request
\* that completed earlier while the same campaign was processed.  No
\* rule-set mutation precedes the CVR creation it depends on, and none
\* names a CVR whose creation failed.
C26_ReferentialOrder ==
  IsPersist(last) =>
    \A j \in 1..Len(last.log) :
      last.log[j].req.op \in {"createSet", "updateSet"} =>
        /\ \A k \in Range(last.log[j].req.rules) :
             \/ k \in Range(last.iters[last.log[j].it].existingRules)
             \/ \E i \in CreatedBefore(last, j) :
                  /\ last.log[i].it = last.log[j].it
                  /\ k = CreatedName(last, i)
        /\ \A i \in 1..(j - 1) :
             last.log[i].req.op = "createCvr" => last.log[i].ok
        /\ \A k \in Range(last.log[j].req.rules) :
             k \in 1..Len(last.iters[last.log[j].it].pre.cvrs)
               + Cardinality({i \in CreatedBefore(last, j) :
                                last.log[i].it = last.log[j].it})

\* A call added a CVR it created to a rule-set that had a member
C26_Witness ==
  /\ IsPersist(last)
  /\ \E j \in 1..Len(last.log) :
       /\ last.log[j].req.op = "updateSet"
       /\ last.log[j].ok
       /\ Len(last.log[j].req.rules) = 2
       /\ CreatedBefore(last, j) # {}

----------------------------------------------------------------------------
(* Target agent: C23, C27 .. C30 *)

\* The status mutations of an agent call that the platform failed, by
\* position in the call's log
FailedStatusMutations(call) ==
  {i \in 1..Len(call.log) :
     call.log[i].req.op = "updateStatus" /\ ~call.log[i].ok}

\* C23: partial toggle.  When the status mutation for the k-th resolved
\* entity fails, the error reaches the caller of process, the k-1 mutations
\* sent before it stay applied and no rollback is sent, and no mutation is
\* sent for the entities after the k-th.
C23_PartialToggle ==
  agent.op = "toggle" =>
    \A k \in FailedStatusMutations(agent) :
      /\ agent.outcome = "threw"
      /\ agent.error = "ApiError"
      /\ k = Len(agent.log)
      /\ agent.calls[Len(agent.calls)] = agent.log[k].req
      /\ \A i \in 1..(k - 1) :
           IsMutation(agent.log[i].req) =>
             /\ agent.log[i].ok
             /\ agent.log[i].req.status
                  = (IF agent.evaluation THEN "ENABLED" ELSE "PAUSED")
             /\ platform.status[agent.log[i].req.resource]
                  = agent.log[i].req.status
      /\ \A e \in Entities :
           (\A i \in 1..(k - 1) : agent.log[i].req.resource # e) =>
             platform.status[e] = agent.pre.status[e]

\* Of the two ads that carry the label promo the first was paused and the
\* mutation for the second failed
C23_Witness ==
  /\ agent.op = "toggle"
  /\ agent.type = "AD_LABEL"
  /\ agent.outcome = "threw"
  /\ FailedStatusMutations(agent) # {}
  /\ agent.pre.status["a1"] = "ENABLED"
  /\ platform.status["a1"] = "PAUSED"
  /\ platform.status["a2"] = "ENABLED"

\* C28: validate with the selector type CAMPAIGN_ID or CAMPAIGN_LABEL
\* resolves no entities, sends no query and returns the empty list,
\* whatever the live status of the campaigns is; mismatches are reported
\* for the four selector types of ads and ad groups only.
C28_CampaignsNotValidated ==
  agent.op = "validate" =>
    /\ agent.type \in {"CAMPAIGN_ID", "CAMPAIGN_LABEL"} =>
         /\ agent.outcome = "returned"
         /\ SentNothing(agent)
         /\ agent.errors = <<>>
    /\ agent.errors # <<>> => agent.type \in ValidatedTypes

\* validate expected campaign 1 to be enabled while it is paused, and
\* returned the empty list
C28_Witness ==
  /\ agent.op = "validate"
  /\ agent.type = "CAMPAIGN_ID"
  /\ agent.identifier = <<"1">>
  /\ agent.evaluation
  /\ platform.status["c1"] = "PAUSED"
  /\ agent.outcome = "returned"
  /\ agent.errors = <<>>

\* The step is a validate call that follows a TOGGLE with the same
\* identifier and the same id selector type for ads or ad groups
C27_ValidateAfterToggle ==
  /\ agent.op = "toggle"
  /\ agent'.op = "validate"
  /\ agent'.n = agent.n + 1
  /\ agent'.identifier = agent.identifier
  /\ agent'.type = agent.type
  /\ agent.type \in {"AD_ID", "AD_GROUP_ID"}

\* C27: validate and TOGGLE agree on the target set.  For the same
\* identifier and the same selector type AD_ID or AD_GROUP_ID, the ids
\* validate looks up are the ids TOGGLE looks up and mutates, also for an
\* identifier with several ids such as "1;2".
C27_SameTargets ==
  [][C27_ValidateAfterToggle =>
       /\ agent'.calls # <<>>
       /\ agent'.calls[1] = agent.calls[1]]_vars

\* C29: campaign resolution of MANAGE_CONV_VALUE_RULE.  The identifier is
\* split on ';' and looked up by campaign id if and only if the selector
\* type is CAMPAIGN_ID; for every other selector type, those of ads and ad
\* groups included, the whole identifier is used as a campaign label name,
\* and no selector type is rejected.
C29_CampaignResolution ==
  (IsManageCvr(agent) /\ agent.hasWeight /\ agent.hasGeo) =>
    /\ Len(agent.calls) = 1
    /\ agent.type = "CAMPAIGN_ID" =>
         agent.calls[1] = SearchByIdReq("campaign",
                                        C13_IdList(agent.identifier))
    /\ agent.type # "CAMPAIGN_ID" =>
         agent.calls[1] = SearchCampaignLabelReq(agent.identifier)
    /\ agent.error \in {NoError, "ApiError", "TypeError"}
    /\ (agent.error = NoError /\ agent.type # "CAMPAIGN_ID") =>
         agent.campaigns = Labelled("campaign", agent.identifier[1])

\* A call with the selector type of ad groups resolved the campaigns that
\* carry the label promo
C29_Witness ==
  /\ IsManageCvr(agent)
  /\ agent.type = "AD_GROUP_ID"
  /\ agent.identifier = <<"promo">>
  /\ agent.outcome = "returned"
  /\ agent.campaigns = <<"c1", "c2">>

\* C30: the parameter checks of MANAGE_CONV_VALUE_RULE run before the
\* evaluation value is looked at, and in a fixed order.  With evaluation
\* false a missing conversionWeight or geo fails with the parameter error
\* and disableAllCvrsForCampaigns is not invoked; when both are missing the
\* error is the one for the conversion weight.
C30_ChecksBeforeEvaluation ==
  IsManageCvr(agent) =>
    /\ (~agent.evaluation /\ (~agent.hasWeight \/ ~agent.hasGeo)) =>
         /\ agent.outcome = "threw"
         /\ agent.error \in {"NoConversionWeight", "NoGeo"}
         /\ agent.dao # "disable"
         /\ agent.campaigns = <<>>
    /\ (~agent.hasWeight /\ ~agent.hasGeo) =>
         agent.error = "NoConversionWeight"

\* A call with evaluation false and neither parameter failed for the
\* conversion weight
C30_Witness ==
  /\ IsManageCvr(agent)
  /\ ~agent.evaluation
  /\ ~agent.hasWeight
  /\ ~agent.hasGeo
  /\ agent.outcome = "threw"
  /\ agent.error = "NoConversionWeight"

====
